---- MODULE Spec2Model ----
(***************************************************************************)
(* A model of the shape bookkeeping and the masking / merging protocol of  *)
(* the InternS1 model (modular_interns1.py, configuration_interns1.py).    *)
(*                                                                         *)
(* A tensor is a record [shape, data]: data is the contiguous row-major    *)
(* flattening of the tensor.  The numerical layers (attention, layer norm, *)
(* linear maps) are not computed: an embedding element is a symbolic value *)
(* <<kind, a, b, h>> that names where it came from, so that the model can   *)
(* tell which vector ends up at which position of the merged sequence.     *)
(***************************************************************************)
EXTENDS Integers, Sequences, FiniteSets

VARIABLES pc, op, config, args, dynamo_compiling, raised, ret, locals, lm_inputs_embeds

vars == <<pc, op, config, args, dynamo_compiling, raised, ret, locals, lm_inputs_embeds>>

\* ------------------------------------------------------------------ bounds
MaxTokens == 4        \* batch * sequence positions of input_ids
MaxBatch == 2         \* rows of input_ids
MaxEmbedsTokens == 2  \* positions of a caller-supplied inputs_embeds
MaxImages == 2        \* images in pixel_values
MaxSeries == 2        \* series in time_series_signals
HiddenSize == 2       \* text_config.hidden_size of the modelled instance
MaxLengths == 3       \* entries of the lengths tensor given to make_pad_mask
MaxLength == 4        \* largest entry of that tensor
MaxShuffleBatch == 2  \* batch size of the tensor given to pixel_shuffle
MaxSide == 4          \* its largest width and height
MaxSignalLen == 1000  \* time steps of a signal given to Conv1dSubsampling

\* ------------------------------------------------------- python's optionals
None == <<>>
Some(x) == <<x>>
Get(o) == o[1]

\* `arg if arg is not None else default`
resolve(arg, default) == IF arg = None THEN default ELSE Get(arg)

\* ------------------------------------------------------------ tensor basics
RECURSIVE Prod(_)
Prod(s) == IF s = <<>> THEN 1 ELSE s[1] * Prod(Tail(s))

Numel(t) == Prod(t.shape)

Tensor(shape, data) == [shape |-> shape, data |-> data]

\* A tensor whose elements are not materialised (only its shape is followed).
ShapeOnly(shape) == [shape |-> shape, data |-> <<>>]

NoTensor == ShapeOnly(<<0>>)

\* Tensor.view / Tensor.reshape to an explicit shape: the flat data is kept,
\* and the call fails when the element counts differ.
ViewFails(t, shape) == Prod(shape) # Numel(t)

View(t, shape) == [shape |-> shape, data |-> t.data]

\* Tensor.permute(0, 2, 1, 3).contiguous() of a 4-D tensor.
Permute0213(t) ==
    LET I == t.shape[2]
        J == t.shape[3]
        K == t.shape[4]
        src(p) == LET k == p % K
                      i == (p \div K) % I
                      j == (p \div (K * I)) % J
                      a == p \div (K * I * J)
                  IN  ((a * I + i) * J + j) * K + k
    IN  [shape |-> <<t.shape[1], J, I, K>>,
         data  |-> [p \in 1..Len(t.data) |-> t.data[src(p - 1) + 1]]]

\* int(n ** 0.5) for n >= 0.
Isqrt(n) == CHOOSE r \in 0..n : r * r <= n /\ (r + 1) * (r + 1) > n

\* Arithmetic of an int with the float ratio r = num / den.
FloatModIsZero(x, r) == (x * r.den) % r.num = 0        \* x % r == 0
IntTimes(x, r) == (x * r.num) \div r.den               \* int(x * r)
IntOver(x, r) == (x * r.den) \div r.num                \* int(x / r)
IntOverSquare(x, r) == (x * r.den * r.den) \div (r.num * r.num)  \* int(x / r**2)
IntInverse(r) == r.den \div r.num                      \* int(1 / r)

\* ------------------------------------------------------------ configuration
image_token_id == 151667
ts_context_token_id == 151668
image_seq_length == 256
vision_hidden_size == 1024
vision_image_side == 448
vision_patch_side == 14
vision_num_hidden_layers == 24
vision_num_channels == 3

\* downsample_ratio is a float; the ratios used are exact binary fractions,
\* kept as numerator / denominator.
Ratio(n, d) == [num |-> n, den |-> d]

DefaultVisionConfig ==
    [hidden_size |-> vision_hidden_size,
     image_size  |-> <<vision_image_side, vision_image_side>>,
     patch_size  |-> <<vision_patch_side, vision_patch_side>>]

\* The model types whose configuration has the attribute output_router_logits.
MoeModelTypes == {"qwen3_moe"}

\* CONFIG_MAPPING[model_type](): the configuration class registered for a
\* model type, named by the class's own model_type; output_router_logits is
\* None where the class has no such attribute.
CONFIG_MAPPING(model_type) ==
    [model_type |-> model_type,
     output_router_logits |-> IF model_type \in MoeModelTypes THEN Some(FALSE) ELSE None]

DefaultConfig ==
    [vision_config |-> DefaultVisionConfig,
     text_config |-> CONFIG_MAPPING("qwen3_moe"),
     text_hidden_size |-> HiddenSize,
     image_token_id |-> image_token_id,
     ts_context_token_id |-> ts_context_token_id,
     ts_select_layer |-> -1,
     image_seq_length |-> image_seq_length,
     downsample_ratio |-> Ratio(1, 2),
     vision_feature_layer |-> -1,
     vision_feature_select_strategy |-> "default"]

\* The default configuration with a dense text backbone.
DenseConfig == [DefaultConfig EXCEPT !.text_config = CONFIG_MAPPING("qwen2")]

\* self.is_moe_model, set in __init__ of InternS1Model and of
\* InternS1ForConditionalGeneration.
is_moe_model(cfg) == cfg.text_config.output_router_logits # None

\* ------------------------------------------------------------ make_pad_mask
\* lengths is a non-empty 1-D tensor, given as the sequence of its entries.
RECURSIVE SeqMax(_)
SeqMax(s) == IF Len(s) = 1 THEN s[1]
             ELSE LET m == SeqMax(Tail(s)) IN IF s[1] > m THEN s[1] ELSE m

\* Mutant: the comparison is strict.
make_pad_mask_strict(lengths) ==
    LET max_len == SeqMax(lengths)
        n == Len(lengths)
        row(p) == ((p - 1) \div max_len) + 1
        col(p) == ((p - 1) % max_len) + 1
    IN  Tensor(<<n, max_len>>,
               [p \in 1..(n * max_len) |-> col(p) - 1 > lengths[row(p)]])

make_pad_mask(lengths) ==
    LET max_len == SeqMax(lengths)
        n == Len(lengths)
        seq_range == [j \in 1..max_len |-> j - 1]
        row(p) == ((p - 1) \div max_len) + 1
        col(p) == ((p - 1) % max_len) + 1
    IN  Tensor(<<n, max_len>>,
               [p \in 1..(n * max_len) |-> seq_range[col(p)] >= lengths[row(p)]])

\* ------------------------------------------------------------ pixel_shuffle
\* vision_features has shape (batch_size, width, height, channels).
pixel_shuffle_guard(height, width, scale_factor) ==
    ~FloatModIsZero(height, scale_factor) \/ ~FloatModIsZero(width, scale_factor)

pixel_shuffle(vision_features, scale_factor) ==
    LET batch_size == vision_features.shape[1]
        width == vision_features.shape[2]
        height == vision_features.shape[3]
        channels == vision_features.shape[4]
        shape1 == <<batch_size, width, IntTimes(height, scale_factor),
                    IntOver(channels, scale_factor)>>
        shape2 == <<batch_size, IntTimes(height, scale_factor),
                    IntTimes(width, scale_factor),
                    IntOverSquare(channels, scale_factor)>>
    IN  IF pixel_shuffle_guard(height, width, scale_factor)
        THEN [raised |-> "ValueError: Height and width must be divisible by scale_factor",
              value |-> NoTensor]
        ELSE IF ViewFails(vision_features, shape1)
        THEN [raised |-> "RuntimeError: view", value |-> NoTensor]
        ELSE LET v1 == Permute0213(View(vision_features, shape1))
             IN  IF ViewFails(v1, shape2)
                 THEN [raised |-> "RuntimeError: view", value |-> NoTensor]
                 ELSE [raised |-> "none",
                       value |-> Permute0213(View(v1, shape2))]

\* ------------------------------------------------------- get_image_features
\* pixel_values is [n, height, width]: n images of height x width pixels.
\* InternS1VisionPatchEmbeddings (a Conv2d with kernel = stride = patch_size)
\* followed by the CLS token of InternS1VisionEmbeddings.
\* Mutant: the CLS token is not prepended.
vision_tower_seq_len_no_cls(cfg, pixel_values) ==
    (pixel_values.height \div cfg.vision_config.patch_size[1])
    * (pixel_values.width \div cfg.vision_config.patch_size[2])

vision_tower_seq_len(cfg, pixel_values) ==
    1 + (pixel_values.height \div cfg.vision_config.patch_size[1])
        * (pixel_values.width \div cfg.vision_config.patch_size[2])

\* InternS1MultiModalProjector: LayerNorm and linear_1 are built for this size.
projector_in_features(cfg) ==
    cfg.vision_config.hidden_size * IntInverse(cfg.downsample_ratio)
                                  * IntInverse(cfg.downsample_ratio)

\* The projected features: element h of token tok of image img.
image_feature_data(n, tokens, hidden) ==
    [p \in 1..(n * tokens * hidden) |->
        <<"img", ((p - 1) \div (tokens * hidden)) + 1,
                 (((p - 1) \div hidden) % tokens) + 1,
                 ((p - 1) % hidden) + 1>>]

ImageFailure(why) ==
    [raised |-> why, value |-> NoTensor, projector_in |-> 0, features_from |-> "none"]

get_image_features(cfg, pixel_values, vision_feature_layer, vision_feature_select_strategy) ==
    LET batch_size == pixel_values.n
        hidden == cfg.vision_config.hidden_size
        seq_len == vision_tower_seq_len(cfg, pixel_values)
        channels == IF vision_feature_select_strategy = "default"
                    THEN seq_len - 1 ELSE seq_len
        feature_size == Isqrt(channels)
    IN  IF vision_feature_layer # -1
        THEN ImageFailure("AttributeError: vision_model")
        ELSE IF feature_size = 0 \/ (channels * hidden) % (feature_size * feature_size) # 0
        THEN ImageFailure("RuntimeError: reshape")
        ELSE LET spatial == ShapeOnly(<<batch_size, feature_size, feature_size,
                                        (channels * hidden) \div (feature_size * feature_size)>>)
                 shuffled == pixel_shuffle(spatial, cfg.downsample_ratio)
             IN  IF shuffled.raised # "none"
                 THEN ImageFailure(shuffled.raised)
                 ELSE LET tokens == shuffled.value.shape[2] * shuffled.value.shape[3]
                          last == shuffled.value.shape[4]
                      IN  IF last # projector_in_features(cfg)
                          THEN ImageFailure("RuntimeError: layer_norm")
                          ELSE [raised |-> "none",
                                value |-> Tensor(<<batch_size, tokens, cfg.text_hidden_size>>,
                                                 image_feature_data(batch_size, tokens,
                                                                    cfg.text_hidden_size)),
                                projector_in |-> last,
                                features_from |-> "last_hidden_state"]

\* ------------------------------------------------------ time-series encoder
ts_cnn_kernel_sizes == <<3, 5, 5, 5>>
ts_cnn_strides == <<2, 4, 4, 5>>
ts_cnn_paddings == <<1, 2, 2, 2>>

\* Output length of nn.Conv1d on n frames; the layer fails on a padded input
\* shorter than its kernel.
Conv1dFails(n, kernel, stride, padding) == n + 2 * padding - kernel < 0

Conv1dOutLen(n, kernel, stride, padding) == ((n + 2 * padding - kernel) \div stride) + 1

RECURSIVE ConvStackOutLen(_, _)
ConvStackOutLen(n, i) ==
    IF i > Len(ts_cnn_kernel_sizes) THEN n
    ELSE IF n < 0 \/ Conv1dFails(n, ts_cnn_kernel_sizes[i], ts_cnn_strides[i], ts_cnn_paddings[i])
    THEN -1
    ELSE ConvStackOutLen(Conv1dOutLen(n, ts_cnn_kernel_sizes[i], ts_cnn_strides[i],
                                      ts_cnn_paddings[i]), i + 1)

\* Conv1dSubsampling.forward followed by ConcatSubsampling.forward, on a
\* signal tensor of `frames` time steps with per-series lengths x_lens:
\* the frame count of the output tensor (-1: a layer failed) and the lengths.
\* Mutant: the last layer's length is rounded down.
subsampled_len_floor(x_len) == ((((x_len + 1) \div 2 + 3) \div 4 + 3) \div 4) \div 5

subsampled_len(x_len) == ((((x_len + 1) \div 2 + 3) \div 4 + 3) \div 4 + 4) \div 5

Conv1dSubsampling(frames, x_lens) ==
    LET t == ConvStackOutLen(frames, 1)
    IN  [frames |-> IF t < 0 THEN -1 ELSE t \div 2,
         x_lens |-> [i \in 1..Len(x_lens) |-> subsampled_len(x_lens[i]) \div 2]]

\* InternTimeSeriesEncoder.forward: conv1 (kernel 3, padding 1) and conv2
\* (kernel 3, stride 2, padding 1) set the number of output frames.
InternTimeSeriesEncoder(frames) ==
    IF frames < 0 \/ Conv1dFails(frames, 3, 1, 1) THEN -1
    ELSE Conv1dOutLen(Conv1dOutLen(frames, 3, 1, 1), 3, 2, 1)

TsFailure(why) == [raised |-> why, frames |-> 0, ts_pad_mask |-> NoTensor]

\* InternTimeSeriesModel.forward on time_series_signals = [batch, length].
InternTimeSeriesModel(time_series_signals, x_lens) ==
    LET embed == Conv1dSubsampling(time_series_signals.length, x_lens)
        frames == InternTimeSeriesEncoder(embed.frames)
        final_lens == [i \in 1..Len(x_lens) |-> (embed.x_lens[i] + 1) \div 2]
    IN  IF frames < 0
        THEN TsFailure("RuntimeError: conv1d")
        ELSE IF \E i \in 1..Len(final_lens) : ~(final_lens[i] > 0)
        THEN TsFailure("AssertionError: x_lens")
        ELSE [raised |-> "none", frames |-> frames,
              ts_pad_mask |-> make_pad_mask(final_lens)]

\* The projected features: element h of frame t of series b.
ts_feature_data(batch, frames, hidden) ==
    [p \in 1..(batch * frames * hidden) |->
        <<"ts", ((p - 1) \div (frames * hidden)) + 1,
                (((p - 1) \div hidden) % frames) + 1,
                ((p - 1) % hidden) + 1>>]

get_time_series_features(cfg, time_series_signals, x_lens) ==
    LET ts_output == InternTimeSeriesModel(time_series_signals, x_lens)
    IN  IF ts_output.raised # "none"
        THEN [raised |-> ts_output.raised, value |-> NoTensor, ts_pad_mask |-> NoTensor]
        ELSE [raised |-> "none",
              value |-> Tensor(<<time_series_signals.batch, ts_output.frames,
                                 cfg.text_hidden_size>>,
                               ts_feature_data(time_series_signals.batch, ts_output.frames,
                                               cfg.text_hidden_size)),
              ts_pad_mask |-> ts_output.ts_pad_mask]

\* ------------------------------------------------------ InternS1Model.forward
\* get_input_embeddings(): element h of the embedding of token id.
embed_token(id, hidden) == [h \in 1..hidden |-> <<"emb", id, 0, h>>]

embed_tokens(input_ids, hidden) ==
    Tensor(<<input_ids.shape[1], input_ids.shape[2], hidden>>,
           [p \in 1..(Numel(input_ids) * hidden) |->
               embed_token(input_ids.data[((p - 1) \div hidden) + 1], hidden)[((p - 1) % hidden) + 1]])

\* Mutant: the check only rejects the call that gives neither input.
inputs_check_fails_neither(input_ids, inputs_embeds) ==
    (input_ids = None) /\ (inputs_embeds = None)

\* (input_ids is None) ^ (inputs_embeds is not None)
inputs_check_fails(input_ids, inputs_embeds) ==
    (input_ids = None) # (inputs_embeds # None)

\* The (batch, sequence) mask of the placeholder positions of token_id.
special_mask(input_ids, inputs_embeds, token_id) ==
    IF input_ids = None
    THEN LET hidden == inputs_embeds.shape[3]
             target == embed_token(token_id, hidden)
         IN  Tensor(<<inputs_embeds.shape[1], inputs_embeds.shape[2]>>,
                    [q \in 1..(inputs_embeds.shape[1] * inputs_embeds.shape[2]) |->
                        \A h \in 1..hidden :
                            inputs_embeds.data[(q - 1) * hidden + h] = target[h]])
    ELSE Tensor(Get(input_ids).shape,
                [q \in 1..Numel(Get(input_ids)) |-> Get(input_ids).data[q] = token_id])

\* Mutant: the mask is broadcast along the leading axis (unsqueeze(0)).
expand_as_leading(mask, inputs_embeds) ==
    Tensor(inputs_embeds.shape,
           [p \in 1..Numel(inputs_embeds) |-> mask.data[((p - 1) % Len(mask.data)) + 1]])

\* mask.unsqueeze(-1).expand_as(inputs_embeds)
expand_as(mask, inputs_embeds) ==
    LET hidden == inputs_embeds.shape[3]
    IN  Tensor(inputs_embeds.shape,
               [p \in 1..Numel(inputs_embeds) |-> mask.data[((p - 1) \div hidden) + 1]])

\* inputs_embeds[mask].numel(): the number of selected elements.
CountTrue(mask) == Cardinality({p \in 1..Len(mask.data) : mask.data[p]})

\* Tensor.masked_scatter: the elements of source are copied, in order, into
\* the positions of self where mask is True.  With fewer source elements than
\* True positions the eager kernel raises; inside a compiled graph the result
\* is not defined, and `under` names the outcome taken.
Undefined == <<"undef", 0, 0, 0>>

masked_scatter_fails(mask, source, under) ==
    CountTrue(mask) > Len(source.data) /\ under = "raise"

\* Mutant: a True position p takes source element p (torch.where semantics).
masked_scatter_by_position(self, mask, source) ==
    Tensor(self.shape,
           [p \in 1..Len(self.data) |->
               IF mask.data[p]
               THEN IF p <= Len(source.data) THEN source.data[p] ELSE Undefined
               ELSE self.data[p]])

masked_scatter(self, mask, source) ==
    LET rank(p) == Cardinality({q \in 1..p : mask.data[q]})
    IN  Tensor(self.shape,
               [p \in 1..Len(self.data) |->
                   IF mask.data[p]
                   THEN IF rank(p) <= Len(source.data) THEN source.data[rank(p)]
                        ELSE Undefined
                   ELSE self.data[p]])

\* time_series_features[~ts_pad_mask]: the rows (b, t) whose mask entry is
\* False, in row-major order; the mask must have the features' (batch, time)
\* shape.
valid_index_fails(time_series_features, ts_pad_mask) ==
    ts_pad_mask.shape # <<time_series_features.shape[1], time_series_features.shape[2]>>

\* Mutant: the padded frames are not dropped.
valid_rows_all(ts_pad_mask) == [q \in 1..Len(ts_pad_mask.data) |-> q]

valid_rows(ts_pad_mask) ==
    LET keep(q) == ~ts_pad_mask.data[q]
    IN  SelectSeq([q \in 1..Len(ts_pad_mask.data) |-> q], keep)

ts_features_valid(time_series_features, ts_pad_mask) ==
    LET hidden == time_series_features.shape[3]
        rows == valid_rows(ts_pad_mask)
    IN  Tensor(<<Len(rows), hidden>>,
               [p \in 1..(Len(rows) * hidden) |->
                   time_series_features.data[(rows[((p - 1) \div hidden) + 1] - 1) * hidden
                                              + ((p - 1) % hidden) + 1]])

\* Mutants: the checks only reject too many placeholder tokens.
image_count_exceeds(inputs_embeds, special_image_mask, image_features, compiling) ==
    ~compiling /\ CountTrue(special_image_mask) > Numel(image_features)

ts_count_exceeds(inputs_embeds, special_ts_mask, features_valid, compiling) ==
    ~compiling /\ CountTrue(special_ts_mask) > Numel(features_valid)

\* The count checks that guard the two merges.
image_count_mismatch(inputs_embeds, special_image_mask, image_features, compiling) ==
    ~compiling /\ CountTrue(special_image_mask) # Numel(image_features)

ts_count_mismatch(inputs_embeds, special_ts_mask, features_valid, compiling) ==
    ~compiling /\ CountTrue(special_ts_mask) # Numel(features_valid)

\* What one merge leaves behind: the exception it raised ("none" if it ran to
\* its end), inputs_embeds, and the locals it had assigned by then.
Stage(why, inputs_embeds, features, pad_mask, valid) ==
    [raised |-> why, inputs_embeds |-> inputs_embeds, features |-> features,
     pad_mask |-> pad_mask, valid |-> valid]

\* if pixel_values is not None: ... (the image merge)
merge_image(cfg, a, inputs_embeds, compiling, under) ==
    LET got == get_image_features(cfg, Get(a.pixel_values),
                                  resolve(a.vision_feature_layer, cfg.vision_feature_layer),
                                  resolve(a.vision_feature_select_strategy,
                                          cfg.vision_feature_select_strategy))
        image_features == got.value
        special_image_mask ==
            expand_as(special_mask(a.input_ids, inputs_embeds, cfg.image_token_id),
                      inputs_embeds)
    IN  IF got.raised # "none"
        THEN Stage(got.raised, inputs_embeds, None, None, None)
        ELSE IF image_count_mismatch(inputs_embeds, special_image_mask, image_features,
                                     compiling)
        THEN Stage("ValueError: Image features and image tokens do not match",
                   inputs_embeds, Some(image_features), None, None)
        ELSE IF masked_scatter_fails(special_image_mask, image_features, under)
        THEN Stage("RuntimeError: masked_scatter", inputs_embeds, Some(image_features),
                   None, None)
        ELSE Stage("none", masked_scatter(inputs_embeds, special_image_mask, image_features),
                   Some(image_features), None, None)

\* if time_series_signals is not None: ... (the time-series merge)
merge_time_series(cfg, a, inputs_embeds, compiling, under) ==
    LET got == get_time_series_features(cfg, Get(a.time_series_signals), Get(a.x_lens))
        time_series_features == got.value
        features_valid == ts_features_valid(time_series_features, got.ts_pad_mask)
        special_ts_mask ==
            expand_as(special_mask(a.input_ids, inputs_embeds, cfg.ts_context_token_id),
                      inputs_embeds)
    IN  IF got.raised # "none"
        THEN Stage(got.raised, inputs_embeds, None, None, None)
        ELSE IF valid_index_fails(time_series_features, got.ts_pad_mask)
        THEN Stage("IndexError: mask shape", inputs_embeds, Some(time_series_features),
                   Some(got.ts_pad_mask), None)
        ELSE IF ts_count_mismatch(inputs_embeds, special_ts_mask, features_valid, compiling)
        THEN Stage("ValueError: Time series features and time series tokens do not match",
                   inputs_embeds, Some(time_series_features), Some(got.ts_pad_mask),
                   Some(features_valid))
        ELSE IF masked_scatter_fails(special_ts_mask, features_valid, under)
        THEN Stage("RuntimeError: masked_scatter", inputs_embeds,
                   Some(time_series_features), Some(got.ts_pad_mask), Some(features_valid))
        ELSE Stage("none", masked_scatter(inputs_embeds, special_ts_mask, features_valid),
                   Some(time_series_features), Some(got.ts_pad_mask), Some(features_valid))

Untouched(inputs_embeds) == Stage("none", inputs_embeds, None, None, None)

\* self.language_model(..., output_router_logits=output_router_logits, **kwargs):
\* with is_moe_model, forward has put the key 'output_router_logits' into
\* kwargs, and the call passes the keyword twice.
language_model_call_fails(cfg) == is_moe_model(cfg)

\* The outcome of forward: the exception raised, the inputs_embeds the language
\* model was called with (None: it was not called), the two returned feature
\* tensors, and the locals forward had assigned when it ended.  reached: the
\* merges ran through to the call of the language model.
Outcome(cfg, image, series, reached) ==
    LET called == reached /\ ~language_model_call_fails(cfg)
    IN
    [raised |-> IF image.raised # "none" THEN image.raised
                ELSE IF series.raised # "none" THEN series.raised
                ELSE IF language_model_call_fails(cfg)
                THEN "TypeError: multiple values for keyword argument 'output_router_logits'"
                ELSE "none",
     lm_inputs_embeds |-> IF called THEN Some(series.inputs_embeds) ELSE None,
     image_hidden_states |-> IF called THEN image.features ELSE None,
     time_series_hidden_states |-> IF called THEN series.features ELSE None,
     locals |-> [image_features |-> image.features,
                 time_series_features |-> series.features,
                 ts_pad_mask |-> series.pad_mask,
                 ts_features_valid |-> series.valid]]

NoLocals ==
    [image_features |-> None, time_series_features |-> None,
     ts_pad_mask |-> None, ts_features_valid |-> None]

forward_time_series(cfg, a, image, compiling, under) ==
    IF image.raised # "none"
    THEN Outcome(cfg, image, Untouched(image.inputs_embeds), FALSE)
    ELSE IF a.time_series_signals # None
    THEN LET series == merge_time_series(cfg, a, image.inputs_embeds, compiling, under)
         IN  Outcome(cfg, image, series, series.raised = "none")
    ELSE Outcome(cfg, image, Untouched(image.inputs_embeds), TRUE)

forward_image(cfg, a, inputs_embeds, compiling, under) ==
    forward_time_series(cfg, a,
                        IF a.pixel_values # None
                        THEN merge_image(cfg, a, inputs_embeds, compiling, under)
                        ELSE Untouched(inputs_embeds),
                        compiling, under)

forward(cfg, a, compiling, under) ==
    IF inputs_check_fails(a.input_ids, a.inputs_embeds)
    THEN [raised |-> "ValueError: You must specify exactly one of input_ids or inputs_embeds",
          lm_inputs_embeds |-> None, image_hidden_states |-> None,
          time_series_hidden_states |-> None, locals |-> NoLocals]
    ELSE forward_image(cfg, a,
                       IF a.inputs_embeds = None
                       THEN embed_tokens(Get(a.input_ids), cfg.text_hidden_size)
                       ELSE Get(a.inputs_embeds),
                       compiling, under)

\* ------------------------------------------------------------------ inputs
\* Token ids: one text token and the two placeholder tokens.
Vocab == {1, image_token_id, ts_context_token_id}

Shapes(max_batch, max_tokens) ==
    {sh \in (1..max_batch) \X (1..max_tokens) : sh[1] * sh[2] <= max_tokens}

IdTensors(max_batch, max_tokens) ==
    UNION {{Tensor(sh, d) : d \in [1..(sh[1] * sh[2]) -> Vocab]} :
           sh \in Shapes(max_batch, max_tokens)}

\* A caller-supplied embedding vector: the embedding of a token, or a vector
\* that agrees with the image token's embedding in its first element only.
MixedVector(hidden) ==
    [h \in 1..hidden |-> IF h = 1 THEN <<"emb", image_token_id, 0, 1>>
                          ELSE <<"emb", ts_context_token_id, 0, h>>]

EmbedVectors(hidden) == {embed_token(v, hidden) : v \in Vocab} \cup {MixedVector(hidden)}

EmbedTensors(max_batch, max_tokens, hidden) ==
    UNION {{Tensor(<<sh[1], sh[2], hidden>>,
                   [p \in 1..(sh[1] * sh[2] * hidden) |->
                       f[((p - 1) \div hidden) + 1][((p - 1) % hidden) + 1]]) :
            f \in [1..(sh[1] * sh[2]) -> EmbedVectors(hidden)]} :
           sh \in Shapes(max_batch, max_tokens)}

\* The (input_ids, inputs_embeds) pairs a caller passes.
InputPairs ==
    {<<Some(t), None>> : t \in IdTensors(MaxBatch, MaxTokens)}
    \cup {<<None, Some(e)>> : e \in EmbedTensors(1, MaxEmbedsTokens, HiddenSize)}
    \cup {<<Some(t), Some(embed_tokens(t, HiddenSize))>> : t \in IdTensors(1, MaxEmbedsTokens)}
    \cup {<<None, None>>}

\* Image sides in pixels: 2, 3 and 4 patches of 14 pixels.
PixelSides == {28, 42, 56}

PixelValues ==
    {None} \cup {Some([n |-> n, height |-> side, width |-> side]) :
                  n \in 1..MaxImages, side \in PixelSides}

\* Raw series lengths: their encoder outputs have 1 and 2 frames.
RawLens == {200, 900}

XLens == UNION {[1..b -> RawLens] : b \in 1..MaxSeries}

TimeSeriesInputs ==
    {<<None, None>>}
    \cup UNION {{<<Some([batch |-> Len(x), length |-> l]), Some(x)>> :
                 l \in {r \in RawLens : r >= SeqMax(x)}} : x \in XLens}

ForwardArgs ==
    {[input_ids |-> ie[1], inputs_embeds |-> ie[2], pixel_values |-> pv,
      time_series_signals |-> ts[1], x_lens |-> ts[2],
      vision_feature_layer |-> None, vision_feature_select_strategy |-> None] :
     ie \in InputPairs, pv \in PixelValues, ts \in TimeSeriesInputs}

\* ----------------------------------------------- InternS1Config.__init__
\* A sub-configuration argument: None, a dict (with or without the key
\* "model_type") or a configuration object of the class of that model type.
NoArg == [kind |-> "None", model_type |-> "absent"]
DictArg(model_type) == [kind |-> "dict", model_type |-> model_type]
ConfigArg(model_type) == [kind |-> "config", model_type |-> model_type]

\* The text_config branch of InternS1Config.__init__; a configuration object
\* is stored as given.
text_config_of(text_config) ==
    IF text_config.kind = "dict"
    THEN CONFIG_MAPPING(IF text_config.model_type # "absent"
                        THEN text_config.model_type ELSE "qwen3_moe")
    ELSE IF text_config.kind = "None"
    THEN CONFIG_MAPPING("qwen3_moe")
    ELSE CONFIG_MAPPING(text_config.model_type)

\* The vision_config branch: a dict, an InternS1VisionConfig or None.
vision_config_of(vision_config) == CONFIG_MAPPING("interns1_vision")

\* The ts_config branch: a dict is converted into a local variable only, so
\* the attribute is set for an InternTimeSeriesEncoderConfig and for None.
ts_config_of(ts_config) ==
    IF ts_config.kind = "dict" THEN None
    ELSE Some(CONFIG_MAPPING("intern_time_series_encoder"))

InternS1Config(vision_config, text_config, ts_config, scalars) ==
    [image_token_id |-> scalars.image_token_id,
     ts_context_token_id |-> scalars.ts_context_token_id,
     ts_select_layer |-> scalars.ts_select_layer,
     image_seq_length |-> scalars.image_seq_length,
     downsample_ratio |-> scalars.downsample_ratio,
     vision_feature_layer |-> scalars.vision_feature_layer,
     vision_feature_select_strategy |-> scalars.vision_feature_select_strategy,
     vision_config |-> vision_config_of(vision_config),
     ts_config |-> ts_config_of(ts_config),
     text_config |-> text_config_of(text_config)]

\* ------------------------------------------------------ InternS1VisionModel
\* The fields of InternS1VisionConfig that InternS1VisionModel reads.
VisionModelConfig(use_mean_pooling, output_attentions, output_hidden_states) ==
    [hidden_size |-> vision_hidden_size,
     image_size  |-> <<vision_image_side, vision_image_side>>,
     patch_size  |-> <<vision_patch_side, vision_patch_side>>,
     num_channels |-> vision_num_channels,
     num_hidden_layers |-> vision_num_hidden_layers,
     use_mean_pooling |-> use_mean_pooling,
     output_attentions |-> output_attentions,
     output_hidden_states |-> output_hidden_states]

\* A hidden state of the vision tower: its shape, the number of encoder
\* layers it went through and whether the final LayerNorm was applied.
HiddenState(shape, layer, normed) == [shape |-> shape, layer |-> layer, normed |-> normed]

\* InternS1VisionPatchEmbeddings.forward: the channel check.
patch_embeddings_fails(vcfg, pixel_values) == pixel_values.num_channels # vcfg.num_channels

\* InternS1VisionEncoder.forward: hidden_states are collected before every
\* layer and once after the last one, attentions once a layer.
InternS1VisionEncoder(vcfg, hidden_states, output_attentions, output_hidden_states) ==
    [last_hidden_state |-> HiddenState(hidden_states.shape, vcfg.num_hidden_layers, FALSE),
     hidden_states |-> IF output_hidden_states
                       THEN Some([i \in 1..(vcfg.num_hidden_layers + 1) |->
                                     HiddenState(hidden_states.shape, i - 1, FALSE)])
                       ELSE None,
     attentions |-> IF output_attentions THEN Some(vcfg.num_hidden_layers) ELSE None]

\* self.layernorm is nn.Identity() under use_mean_pooling, a LayerNorm otherwise.
layernorm(vcfg, sequence_output) ==
    IF vcfg.use_mean_pooling THEN sequence_output
    ELSE [sequence_output EXCEPT !.normed = TRUE]

\* InternS1VisionModel.forward.  The output object is built from
\* last_hidden_state, hidden_states and attentions; pooler_output keeps the
\* default of the output class.
InternS1VisionModel(vcfg, pixel_values, output_attentions_arg, output_hidden_states_arg) ==
    LET output_attentions == resolve(output_attentions_arg, vcfg.output_attentions)
        output_hidden_states == resolve(output_hidden_states_arg, vcfg.output_hidden_states)
        seq_len == vision_tower_seq_len([vision_config |-> vcfg], pixel_values)
        embedding_output == HiddenState(<<pixel_values.n, seq_len, vcfg.hidden_size>>, 0, FALSE)
        encoder_outputs == InternS1VisionEncoder(vcfg, embedding_output,
                                                 output_attentions, output_hidden_states)
    IN  IF patch_embeddings_fails(vcfg, pixel_values)
        THEN [raised |-> "ValueError: channel dimension", value |-> None]
        ELSE [raised |-> "none",
              value |-> Some([last_hidden_state |->
                                  layernorm(vcfg, encoder_outputs.last_hidden_state),
                              hidden_states |-> encoder_outputs.hidden_states,
                              attentions |-> encoder_outputs.attentions,
                              pooler_output |-> None])]

\* ------------------------------------- InternS1ForConditionalGeneration
\* load_balancing_loss_func: the int 0 unless gate_logits is a tuple, the
\* tensor overall_loss * num_experts otherwise.
load_balancing_loss_func(gate_logits) ==
    IF gate_logits.kind = "None" \/ gate_logits.kind # "tuple"
    THEN [type |-> "int", value |-> "0"]
    ELSE [type |-> "tensor", value |-> "overall_loss * num_experts"]

\* output_router_logits as forward passes it on: resolved against the text
\* configuration with is_moe_model, the argument itself otherwise.
router_logits_flag(cfg, output_router_logits) ==
    IF is_moe_model(cfg)
    THEN Some(resolve(output_router_logits, Get(cfg.text_config.output_router_logits)))
    ELSE output_router_logits

\* self.model(..., output_router_logits=output_router_logits, **kwargs): with
\* is_moe_model, forward has put the key 'output_router_logits' into kwargs,
\* and the call passes the keyword twice.
model_call_fails(cfg) == is_moe_model(cfg)

\* outputs.router_logits of InternS1Model.forward.
router_logits_of(cfg, flag) ==
    IF is_moe_model(cfg) /\ flag = Some(TRUE)
    THEN [kind |-> "tuple"] ELSE [kind |-> "None"]

GenerationFailure(why, outputs) ==
    [raised |-> why, value |-> None, locals |-> outputs.locals,
     lm_inputs_embeds |-> outputs.lm_inputs_embeds]

NotCalled ==
    [raised |-> "none", lm_inputs_embeds |-> None, image_hidden_states |-> None,
     time_series_hidden_states |-> None, locals |-> NoLocals]

\* InternS1ForConditionalGeneration.forward after the call of self.model
\* returned outputs.  A loss is the sequence of its summands.
generation_loss(cfg, labels, flag, outputs) ==
    IF outputs.raised # "none"
    THEN GenerationFailure(outputs.raised, outputs)
    ELSE IF is_moe_model(cfg) /\ flag = Some(TRUE) /\ labels # None
    THEN IF load_balancing_loss_func(router_logits_of(cfg, flag)).type = "int"
         THEN GenerationFailure("AttributeError: 'int' object has no attribute 'to'", outputs)
         ELSE [raised |-> "none",
               value |-> Some([loss |-> Some(<<"lm_loss", "router_aux_loss_coef * aux_loss">>),
                               aux_loss |-> Some(load_balancing_loss_func(
                                                     router_logits_of(cfg, flag))),
                               image_hidden_states |-> outputs.image_hidden_states]),
               locals |-> outputs.locals,
               lm_inputs_embeds |-> outputs.lm_inputs_embeds]
    ELSE [raised |-> "none",
          value |-> Some([loss |-> IF labels # None THEN Some(<<"lm_loss">>) ELSE None,
                          aux_loss |-> None,
                          image_hidden_states |-> outputs.image_hidden_states]),
          locals |-> outputs.locals,
          lm_inputs_embeds |-> outputs.lm_inputs_embeds]

\* InternS1ForConditionalGeneration.forward.
generation_forward(cfg, a, labels, output_router_logits) ==
    IF model_call_fails(cfg)
    THEN GenerationFailure(
             "TypeError: multiple values for keyword argument 'output_router_logits'",
             NotCalled)
    ELSE CHOOSE out \in {generation_loss(cfg, labels,
                                         router_logits_flag(cfg, output_router_logits),
                                         outputs) :
                         outputs \in {forward(cfg, a, FALSE, "raise")}} : TRUE

\* ------------------------------------------------------------------ actions
Idle(cfg) ==
    /\ pc = "idle"
    /\ op = "none"
    /\ config = cfg
    /\ args = None
    /\ dynamo_compiling = FALSE
    /\ raised = "none"
    /\ ret = None
    /\ locals = None
    /\ lm_inputs_embeds = None

\* The model is built on the default (mixture-of-experts) text backbone or on
\* a dense one.
Init == \E cfg \in {DefaultConfig, DenseConfig} : Idle(cfg)

\* One call of InternS1Model.forward, up to the call of the language model.
Forward ==
    /\ pc = "idle"
    /\ \E a \in ForwardArgs, compiling \in BOOLEAN :
        \E under \in (IF compiling THEN {"raise", "fill"} ELSE {"raise"}) :
        \E out \in {forward(config, a, compiling, under)} :
              /\ args' = a
              /\ dynamo_compiling' = compiling
              /\ raised' = out.raised
              /\ ret' = [image_hidden_states |-> out.image_hidden_states,
                         time_series_hidden_states |-> out.time_series_hidden_states]
              /\ locals' = out.locals
              /\ lm_inputs_embeds' = out.lm_inputs_embeds
    /\ pc' = "done"
    /\ op' = "forward"
    /\ UNCHANGED config

\* The call returns (or its exception propagates) and the model is idle again.
Return ==
    /\ pc = "done"
    /\ pc' = "idle"
    /\ op' = "none"
    /\ args' = None
    /\ dynamo_compiling' = FALSE
    /\ raised' = "none"
    /\ ret' = None
    /\ locals' = None
    /\ lm_inputs_embeds' = None
    /\ UNCHANGED config

Next == Forward \/ Return

Spec == Init /\ [][Next]_vars

\* ------------------------------------------------- the helper functions
LengthsInputs == UNION {[1..n -> 0..MaxLength] : n \in 1..MaxLengths}

\* One call of make_pad_mask.
MakePadMask ==
    /\ pc = "idle"
    /\ \E lengths \in LengthsInputs :
          /\ args' = [lengths |-> lengths]
          /\ ret' = make_pad_mask(lengths)
    /\ pc' = "done"
    /\ op' = "make_pad_mask"
    /\ raised' = "none"
    /\ UNCHANGED <<config, dynamo_compiling, locals, lm_inputs_embeds>>

NextPadMask == MakePadMask \/ Return

SpecPadMask == Init /\ [][NextPadMask]_vars

\* Channel counts and scale factors given to pixel_shuffle.
ShuffleChannels == {3, 4, 8}

ScaleFactors == {Ratio(1, 2), Ratio(1, 4), Ratio(1, 1), Ratio(2, 1)}

\* Tensors of shape (batch, width, height, channels) whose elements are told
\* apart: element p of the flat data is the number p.
ShuffleTensors ==
    {Tensor(<<b, w, h, c>>, [p \in 1..(b * w * h * c) |-> p]) :
     b \in 1..MaxShuffleBatch, w \in 1..MaxSide, h \in 1..MaxSide, c \in ShuffleChannels}

\* One call of InternS1Model.pixel_shuffle.
PixelShuffle ==
    /\ pc = "idle"
    /\ \E t \in ShuffleTensors, scale_factor \in ScaleFactors :
        \E out \in {pixel_shuffle(t, scale_factor)} :
          /\ args' = [vision_features |-> t, scale_factor |-> scale_factor]
          /\ raised' = out.raised
          /\ ret' = out.value
    /\ pc' = "done"
    /\ op' = "pixel_shuffle"
    /\ UNCHANGED <<config, dynamo_compiling, locals, lm_inputs_embeds>>

NextPixelShuffle == PixelShuffle \/ Return

SpecPixelShuffle == Init /\ [][NextPixelShuffle]_vars

\* Configurations of the vision path: the default one and its neighbours.
ImageConfigs ==
    {[DefaultConfig EXCEPT !.vision_config.hidden_size = hs,
                           !.downsample_ratio = r,
                           !.vision_feature_layer = l,
                           !.vision_feature_select_strategy = st] :
     hs \in {vision_hidden_size, 64}, r \in {Ratio(1, 2), Ratio(1, 4), Ratio(1, 1)},
     l \in {-1, -2}, st \in {"default", "full"}}

InitImageFeatures == \E cfg \in ImageConfigs : Idle(cfg)

ImageSides == PixelSides \cup {vision_image_side}

\* One call of InternS1Model.get_image_features.
GetImageFeatures ==
    /\ pc = "idle"
    /\ \E n \in 1..MaxImages, height \in ImageSides, width \in ImageSides,
          layer \in {None, Some(-1), Some(-2)},
          strategy \in {None, Some("default"), Some("full")} :
        \E out \in {get_image_features(config,
                                       [n |-> n, height |-> height, width |-> width],
                                       resolve(layer, config.vision_feature_layer),
                                       resolve(strategy,
                                               config.vision_feature_select_strategy))} :
          /\ args' = [pixel_values |-> [n |-> n, height |-> height, width |-> width],
                      vision_feature_layer |-> layer,
                      vision_feature_select_strategy |-> strategy]
          /\ raised' = out.raised
          /\ ret' = out.value
          /\ locals' = [projector_in |-> out.projector_in,
                        features_from |-> out.features_from]
    /\ pc' = "done"
    /\ op' = "get_image_features"
    /\ UNCHANGED <<config, dynamo_compiling, lm_inputs_embeds>>

NextImageFeatures == GetImageFeatures \/ Return

SpecImageFeatures == InitImageFeatures /\ [][NextImageFeatures]_vars

\* Configurations of the vision tower on its own.
VisionModelConfigs ==
    {VisionModelConfig(p, oa, ohs) : p \in BOOLEAN, oa \in BOOLEAN, ohs \in BOOLEAN}

InitVisionModel == \E vcfg \in VisionModelConfigs : Idle(vcfg)

VisionPixelValues ==
    {[n |-> n, num_channels |-> c, height |-> side, width |-> side] :
     n \in 1..MaxImages, c \in {vision_num_channels, 1}, side \in ImageSides}

\* One call of InternS1VisionModel.forward.
VisionModelForward ==
    /\ pc = "idle"
    /\ \E pixel_values \in VisionPixelValues,
          output_attentions \in {None, Some(TRUE), Some(FALSE)},
          output_hidden_states \in {None, Some(TRUE), Some(FALSE)} :
        \E out \in {InternS1VisionModel(config, pixel_values,
                                        output_attentions, output_hidden_states)} :
          /\ args' = [pixel_values |-> pixel_values,
                      output_attentions |-> output_attentions,
                      output_hidden_states |-> output_hidden_states]
          /\ raised' = out.raised
          /\ ret' = out.value
    /\ pc' = "done"
    /\ op' = "vision_model"
    /\ UNCHANGED <<config, dynamo_compiling, locals, lm_inputs_embeds>>

NextVisionModel == VisionModelForward \/ Return

SpecVisionModel == InitVisionModel /\ [][NextVisionModel]_vars

\* The arguments of InternS1Config(...): the defaults and their neighbours.
TextModelTypes == {"qwen2", "qwen3", "qwen3_moe"}

TextConfigArgs ==
    {NoArg, DictArg("absent")}
        \cup {DictArg(t) : t \in TextModelTypes} \cup {ConfigArg(t) : t \in TextModelTypes}

VisionConfigArgs == {NoArg, DictArg("absent"), ConfigArg("interns1_vision")}

TsConfigArgs == {NoArg, DictArg("absent"), ConfigArg("intern_time_series_encoder")}

ConfigScalars ==
    {[image_token_id |-> image_token_id,
      ts_context_token_id |-> ts_context_token_id,
      ts_select_layer |-> -1,
      image_seq_length |-> image_seq_length,
      downsample_ratio |-> r,
      vision_feature_layer |-> l,
      vision_feature_select_strategy |-> st] :
     r \in {Ratio(1, 2), Ratio(1, 4)}, l \in {-1, -2}, st \in {"default", "full"}}

InitConfig == Idle(None)

\* One construction of an InternS1Config.
ConfigInit ==
    /\ pc = "idle"
    /\ \E vision_config \in VisionConfigArgs, text_config \in TextConfigArgs,
          ts_config \in TsConfigArgs, scalars \in ConfigScalars :
          /\ args' = [vision_config |-> vision_config,
                      text_config |-> text_config,
                      ts_config |-> ts_config,
                      scalars |-> scalars]
          /\ ret' = InternS1Config(vision_config, text_config, ts_config, scalars)
    /\ raised' = "none"
    /\ pc' = "done"
    /\ op' = "InternS1Config"
    /\ UNCHANGED <<config, dynamo_compiling, locals, lm_inputs_embeds>>

NextConfig == ConfigInit \/ Return

SpecConfig == InitConfig /\ [][NextConfig]_vars

\* Text backbones of InternS1ForConditionalGeneration: mixture-of-experts
\* with output_router_logits off and on in the configuration, and dense.
GenerationConfigs ==
    {DefaultConfig,
     [DefaultConfig EXCEPT !.text_config.output_router_logits = Some(TRUE)],
     DenseConfig}

InitGeneration == \E cfg \in GenerationConfigs : Idle(cfg)

GenerationArgs ==
    {[input_ids |-> ids, inputs_embeds |-> None, pixel_values |-> pv,
      time_series_signals |-> None, x_lens |-> None,
      vision_feature_layer |-> None, vision_feature_select_strategy |-> None] :
     ids \in {None} \cup {Some(t) : t \in IdTensors(1, MaxEmbedsTokens)},
     pv \in {None, Some([n |-> 1, height |-> 28, width |-> 28])}}

\* One call of InternS1ForConditionalGeneration.forward.
GenerationForward ==
    /\ pc = "idle"
    /\ \E a \in GenerationArgs, labels \in {None, Some("labels")},
          output_router_logits \in {None, Some(TRUE), Some(FALSE)} :
        \E out \in {generation_forward(config, a, labels, output_router_logits)} :
          /\ args' = [model |-> a, labels |-> labels,
                      output_router_logits |-> output_router_logits]
          /\ raised' = out.raised
          /\ ret' = out.value
          /\ locals' = out.locals
          /\ lm_inputs_embeds' = out.lm_inputs_embeds
    /\ pc' = "done"
    /\ op' = "generation_forward"
    /\ UNCHANGED <<config, dynamo_compiling>>

GateLogits == {[kind |-> "None"], [kind |-> "tensor"], [kind |-> "tuple"]}

\* One call of load_balancing_loss_func.
LoadBalancingLoss ==
    /\ pc = "idle"
    /\ \E gate_logits \in GateLogits :
          /\ args' = [gate_logits |-> gate_logits]
          /\ ret' = load_balancing_loss_func(gate_logits)
    /\ raised' = "none"
    /\ pc' = "done"
    /\ op' = "load_balancing_loss_func"
    /\ UNCHANGED <<config, dynamo_compiling, locals, lm_inputs_embeds>>

NextGeneration == GenerationForward \/ LoadBalancingLoss \/ Return

SpecGeneration == InitGeneration /\ [][NextGeneration]_vars

\* Signals of 1..MaxSignalLen time steps: the longest series of the batch
\* fills the tensor, a second one may be shorter.
SubsamplingInputs ==
    UNION {{[frames |-> n, x_lens |-> <<n>>]}
           \cup {[frames |-> n, x_lens |-> <<n, x>>] : x \in {1, (n + 1) \div 2, n - 1, n} \ {0}} :
           n \in 1..MaxSignalLen}

\* One call of Conv1dSubsampling.forward: the convolution layers give the
\* tensor its length, the formula gives x_lens, then ConcatSubsampling halves both.
Conv1dSubsamplingForward ==
    /\ pc = "idle"
    /\ \E a \in SubsamplingInputs :
          /\ args' = a
          /\ locals' = [conv_frames |-> ConvStackOutLen(a.frames, 1),
                        conv_x_lens |-> [i \in 1..Len(a.x_lens) |-> subsampled_len(a.x_lens[i])]]
          /\ ret' = Conv1dSubsampling(a.frames, a.x_lens)
    /\ raised' = "none"
    /\ pc' = "done"
    /\ op' = "Conv1dSubsampling"
    /\ UNCHANGED <<config, dynamo_compiling, lm_inputs_embeds>>

NextSubsampling == Conv1dSubsamplingForward \/ Return

SpecSubsampling == Init /\ [][NextSubsampling]_vars

\* ------------------------------------------- claims: InternS1Model.forward
ForwardDone == pc = "done" /\ op = "forward"

LmInvoked == lm_inputs_embeds # None

\* The positions (row-major, from 1) of input_ids that hold token tok.
PositionsOf(tok) ==
    LET ids == Get(args.input_ids)
        holds(q) == ids.data[q] = tok
    IN  SelectSeq([q \in 1..Len(ids.data) |-> q], holds)

\* The hidden vector at position q of a tensor whose last axis is hidden.
RowOf(t, q, hidden) == [h \in 1..hidden |-> t.data[(q - 1) * hidden + h]]

\* The number of placeholder positions of tok in the call's input.
TokenCount(tok) ==
    IF args.input_ids # None THEN Len(PositionsOf(tok))
    ELSE LET e == Get(args.inputs_embeds)
         IN  Cardinality({q \in 1..(e.shape[1] * e.shape[2]) :
                 RowOf(e, q, e.shape[3]) = [h \in 1..e.shape[3] |-> <<"emb", tok, 0, h>>]})

ImageFeatureRows ==
    Get(locals.image_features).shape[1] * Get(locals.image_features).shape[2]

ImageMergeRan ==
    /\ ForwardDone
    /\ args.input_ids # None
    /\ args.pixel_values # None
    /\ LmInvoked
    /\ Len(PositionsOf(image_token_id)) = ImageFeatureRows

\* C1: when forward is given input_ids and pixel_values and the image count
\* check passes, the k-th position (batch-major, then sequence) holding
\* image_token_id carries, in the inputs_embeds given to the language model,
\* the k-th row of image_features flattened over (image, token).
C1_ImageTokensReceiveFeatures ==
    ImageMergeRan =>
        LET pos == PositionsOf(image_token_id)
            feats == Get(locals.image_features)
            tokens == feats.shape[2]
            hidden == feats.shape[3]
        IN  \A k \in 1..Len(pos) :
                /\ RowOf(Get(lm_inputs_embeds), pos[k], hidden) = RowOf(feats, k, hidden)
                /\ RowOf(Get(lm_inputs_embeds), pos[k], hidden)
                     = [h \in 1..hidden |->
                           <<"img", ((k - 1) \div tokens) + 1, ((k - 1) % tokens) + 1, h>>]

\* Two or more image positions, in a batch of two or more rows, the first of
\* them not at the first position.
C1_Witness ==
    /\ ImageMergeRan
    /\ Len(PositionsOf(image_token_id)) >= 2
    /\ PositionsOf(image_token_id)[1] # 1
    /\ Get(args.input_ids).shape[1] >= 2

\* The number of frames the encoder keeps of a series of x_len samples: the
\* length after Conv1dSubsampling, ConcatSubsampling and the encoder's conv2.
FinalLen(x_len) ==
    ((((((x_len + 1) \div 2 + 3) \div 4 + 3) \div 4 + 4) \div 5) \div 2 + 1) \div 2

CountFalse(mask) == Cardinality({q \in 1..Len(mask.data) : ~mask.data[q]})

TsMergeRan ==
    /\ ForwardDone
    /\ args.input_ids # None
    /\ args.time_series_signals # None
    /\ LmInvoked
    /\ Len(PositionsOf(ts_context_token_id)) = CountFalse(Get(locals.ts_pad_mask))

\* C2: when forward is given time_series_signals and the time-series count
\* check passes, frame t of series b is written into inputs_embeds iff
\* t < final_len(b), that is iff ts_pad_mask[b][t] is False; the frames fill
\* the ts-context positions in (series, time) order, and no padded frame is
\* written.
C2_OnlyValidFramesInserted ==
    TsMergeRan =>
        LET pos == PositionsOf(ts_context_token_id)
            mask == Get(locals.ts_pad_mask)
            feats == Get(locals.time_series_features)
            lm == Get(lm_inputs_embeds)
            frames == feats.shape[2]
            hidden == feats.shape[3]
            series(q) == ((q - 1) \div frames) + 1
            time(q) == ((q - 1) % frames) + 1
            kept(q) == time(q) - 1 < FinalLen(Get(args.x_lens)[series(q)])
            valid == SelectSeq([q \in 1..(feats.shape[1] * frames) |-> q], kept)
        IN  /\ mask.shape = <<feats.shape[1], frames>>
            /\ \A q \in 1..Len(mask.data) : mask.data[q] = ~kept(q)
            /\ Len(valid) = Len(pos)
            /\ \A k \in 1..Len(pos) :
                   /\ RowOf(lm, pos[k], hidden) = RowOf(feats, valid[k], hidden)
                   /\ RowOf(lm, pos[k], hidden)
                        = [h \in 1..hidden |-> <<"ts", series(valid[k]), time(valid[k]), h>>]
            /\ \A q \in 1..(feats.shape[1] * frames) :
                   (\E r \in 1..(lm.shape[1] * lm.shape[2]) :
                        RowOf(lm, r, hidden) = RowOf(feats, q, hidden)) <=> kept(q)

\* Two series of different final lengths, so that the shorter one has a
\* padded frame, and every valid frame has a position.
C2_Witness ==
    /\ TsMergeRan
    /\ \E q \in 1..Len(Get(locals.ts_pad_mask).data) : Get(locals.ts_pad_mask).data[q]
    /\ Get(locals.ts_pad_mask).data[2]
    /\ Len(PositionsOf(ts_context_token_id)) >= 3

\* C3: the two merges leave the embedding of every position whose input id is
\* neither image_token_id nor ts_context_token_id as the embedding layer gave
\* it, and the language model receives inputs_embeds of the input's (batch,
\* sequence) shape.
C3_OtherPositionsUnchanged ==
    (ForwardDone /\ args.input_ids # None /\ LmInvoked) =>
        LET ids == Get(args.input_ids)
            lm == Get(lm_inputs_embeds)
            hidden == config.text_hidden_size
        IN  /\ lm.shape = <<ids.shape[1], ids.shape[2], hidden>>
            /\ Len(lm.data) = ids.shape[1] * ids.shape[2] * hidden
            /\ \A q \in 1..Len(ids.data) :
                   ids.data[q] \notin {image_token_id, ts_context_token_id}
                   => RowOf(lm, q, hidden) = [h \in 1..hidden |-> <<"emb", ids.data[q], 0, h>>]

\* Both merges ran on an input that also holds a text token.
C3_Witness ==
    /\ ImageMergeRan
    /\ TsMergeRan
    /\ Len(PositionsOf(image_token_id)) >= 1
    /\ Len(PositionsOf(ts_context_token_id)) >= 1
    /\ Len(PositionsOf(1)) >= 1

ImageMismatchError == "ValueError: Image features and image tokens do not match"

TsMismatchError == "ValueError: Time series features and time series tokens do not match"

InputsError == "ValueError: You must specify exactly one of input_ids or inputs_embeds"

ImageCountsDiffer ==
    /\ ForwardDone
    /\ args.pixel_values # None
    /\ locals.image_features # None
    /\ TokenCount(image_token_id) # ImageFeatureRows

\* C4 as stated: whenever pixel_values is given and the number of image
\* placeholder tokens differs from the number of projected image feature
\* vectors, forward raises the image mismatch ValueError and the language
\* model is not invoked.
C4_AsStated ==
    ImageCountsDiffer => (raised = ImageMismatchError /\ ~LmInvoked)

\* C4 amended: the same, provided is_torchdynamo_compiling() is false (the
\* check is skipped while a graph is being compiled).
C4_ImageMismatchRaises ==
    (ImageCountsDiffer /\ ~dynamo_compiling) => (raised = ImageMismatchError /\ ~LmInvoked)

C4_Witness ==
    /\ ImageCountsDiffer
    /\ ~dynamo_compiling
    /\ raised = ImageMismatchError
    /\ TokenCount(image_token_id) >= 1

TsCountsDiffer ==
    /\ ForwardDone
    /\ args.time_series_signals # None
    /\ locals.ts_features_valid # None
    /\ TokenCount(ts_context_token_id) # CountFalse(Get(locals.ts_pad_mask))

C6_ExactlyOneInput ==
    ForwardDone =>
        ((raised = InputsError) <=> ((args.input_ids = None) <=> (args.inputs_embeds = None)))

C6_Witness ==
    /\ ForwardDone
    /\ args.input_ids # None
    /\ args.inputs_embeds # None
    /\ raised = InputsError

\* ------------------------------------------------ claims: make_pad_mask
PadMaskDone == pc = "done" /\ op = "make_pad_mask"

MaxOf(lengths) ==
    CHOOSE m \in {lengths[i] : i \in 1..Len(lengths)} :
        \A i \in 1..Len(lengths) : lengths[i] <= m

\* C7: make_pad_mask(lengths) on n lengths returns an n x max(lengths) boolean
\* matrix whose entry [i][j] is True iff j >= lengths[i]; row i has exactly
\* lengths[i] False entries, all of them before its True entries.
C7_PadMaskEntries ==
    PadMaskDone =>
        LET lengths == args.lengths
            n == Len(lengths)
            width == MaxOf(lengths)
            entry(i, j) == ret.data[(i - 1) * width + j + 1]
        IN  /\ ret.shape = <<n, width>>
            /\ Len(ret.data) = n * width
            /\ \A i \in 1..n : \A j \in 0..(width - 1) : entry(i, j) = (j >= lengths[i])
            /\ \A i \in 1..n :
                   /\ Cardinality({j \in 0..(width - 1) : ~entry(i, j)}) = lengths[i]
                   /\ \A j \in 0..(width - 1) : \A k \in 0..(width - 1) :
                          (~entry(i, j) /\ entry(i, k)) => j < k

\* Three lengths, one row without padding and one with both kinds of entry.
C7_Witness ==
    /\ PadMaskDone
    /\ Len(args.lengths) >= 3
    /\ \E i \in 1..Len(args.lengths) : \E k \in 1..Len(args.lengths) :
          /\ 0 < args.lengths[i]
          /\ args.lengths[i] < args.lengths[k]
    /\ \E p \in 1..Len(ret.data) : ret.data[p]
    /\ \E p \in 1..Len(ret.data) : ~ret.data[p]

\* ------------------------------------------- claims: get_image_features
ImageFeaturesDone == pc = "done" /\ op = "get_image_features"

\* The default configuration, called on images of the configured size with
\* the default layer and selection strategy.
DefaultImageCall ==
    /\ ImageFeaturesDone
    /\ config = DefaultConfig
    /\ args.pixel_values.height = config.vision_config.image_size[1]
    /\ args.pixel_values.width = config.vision_config.image_size[2]
    /\ args.vision_feature_layer \in {None, Some(-1)}
    /\ args.vision_feature_select_strategy \in {None, Some("default")}

\* C8: with the default configuration get_image_features returns exactly
\* config.image_seq_length = 256 tokens per image, and the channel dimension
\* given to the multimodal projector is vision hidden_size *
\* int(1 / downsample_ratio)^2, the input size of its LayerNorm and Linear.
C8_DefaultImageSeqLength ==
    DefaultImageCall =>
        /\ raised = "none"
        /\ ret.shape = <<args.pixel_values.n, config.image_seq_length, config.text_hidden_size>>
        /\ ret.shape[2] = 256
        /\ locals.projector_in
             = config.vision_config.hidden_size
               * (config.downsample_ratio.den \div config.downsample_ratio.num)
               * (config.downsample_ratio.den \div config.downsample_ratio.num)
        /\ locals.projector_in = 4096

C8_Witness ==
    /\ DefaultImageCall
    /\ raised = "none"
    /\ args.pixel_values.n >= 2
    /\ Len(ret.data) = args.pixel_values.n * 256 * config.text_hidden_size

\* The layer the call selects, and whether it indexes the vision tower's
\* num_hidden_layers + 1 hidden states.
SelectedLayer == resolve(args.vision_feature_layer, config.vision_feature_layer)

ValidLayerIndex ==
    /\ SelectedLayer >= -(vision_num_hidden_layers + 1)
    /\ SelectedLayer <= vision_num_hidden_layers

\* The shapes of the call fit: it succeeds when the last layer is selected.
ImageShapesFit ==
    get_image_features(config, args.pixel_values, -1,
                       resolve(args.vision_feature_select_strategy,
                               config.vision_feature_select_strategy)).raised = "none"

\* C11 as stated: get_image_features with a vision_feature_layer other than
\* -1 returns features computed from hidden_states[vision_feature_layer] of
\* the vision tower, and with -1 from its last_hidden_state; neither case
\* fails for a valid layer index.
C11_AsStated ==
    (ImageFeaturesDone /\ ValidLayerIndex /\ ImageShapesFit) =>
        /\ raised = "none"
        /\ locals.features_from
             = (IF SelectedLayer = -1 THEN "last_hidden_state" ELSE "hidden_states")

\* ------------------------------------------- claims: InternS1VisionModel
VisionModelDone == pc = "done" /\ op = "vision_model"

\* C12 as stated: InternS1VisionModel.forward returns a pooler_output of shape
\* (batch_size, hidden_size): the average of the last-layer hidden states of
\* the patch tokens (without the CLS token) when config.use_mean_pooling is
\* True, the final hidden state of the CLS token when it is False.
C12_AsStated ==
    (VisionModelDone /\ raised = "none") =>
        /\ Get(ret).pooler_output # None
        /\ Get(Get(ret).pooler_output).shape
             = <<args.pixel_values.n, config.hidden_size>>
        /\ Get(Get(ret).pooler_output).pooled
             = (IF config.use_mean_pooling THEN "mean of patch tokens" ELSE "CLS token")

\* ------------------------------------------------ claims: InternS1Config
ConfigDone == pc = "done" /\ op = "InternS1Config"

\* No model type is named: text_config is None or a dict without "model_type".
TextModelTypeNotGiven ==
    \/ args.text_config.kind = "None"
    \/ args.text_config.kind = "dict" /\ args.text_config.model_type = "absent"

\* C13 as stated: an InternS1Config constructed with text_config=None, or with
\* a text_config dict without the key "model_type", has a Qwen2Config as its
\* text_config.
C13_AsStated ==
    (ConfigDone /\ TextModelTypeNotGiven) => ret.text_config.model_type = "qwen2"

\* ------------------------------ claims: InternS1ForConditionalGeneration
GenerationDone == pc = "done" /\ op = "generation_forward"

LoadBalancingDone == pc = "done" /\ op = "load_balancing_loss_func"

\* The inputs are good: InternS1Model.forward accepts them on a dense backbone.
GenerationInputsFit ==
    forward([config EXCEPT !.text_config = CONFIG_MAPPING("qwen2")],
            args.model, FALSE, "raise").raised = "none"

\* The text backbone is a MoE model, output_router_logits is true (as argument
\* or, without one, in the text configuration) and labels are given.
RouterLossCase ==
    /\ is_moe_model(config)
    /\ resolve(args.output_router_logits, Get(config.text_config.output_router_logits))
    /\ args.labels # None

\* C14 as stated: InternS1ForConditionalGeneration.forward returns a non-None
\* aux_loss exactly when the text backbone is a MoE model, output_router_logits
\* is true and labels are given, and then loss = language-modelling loss +
\* router_aux_loss_coef * aux_loss; in every other case aux_loss is None and
\* loss is the language-modelling loss alone (None without labels).
\* load_balancing_loss_func returns 0 when gate_logits is None or not a tuple.
C14_AsStated ==
    /\ (GenerationDone /\ GenerationInputsFit) =>
          /\ raised = "none"
          /\ IF RouterLossCase
             THEN /\ Get(ret).aux_loss # None
                  /\ Get(ret).loss = Some(<<"lm_loss", "router_aux_loss_coef * aux_loss">>)
             ELSE /\ Get(ret).aux_loss = None
                  /\ Get(ret).loss = (IF args.labels # None
                                      THEN Some(<<"lm_loss">>) ELSE None)
    /\ (LoadBalancingDone /\ args.gate_logits.kind # "tuple") =>
          ret = [type |-> "int", value |-> "0"]

\* ------------------------------------------- claims: Conv1dSubsampling
SubsamplingDone == pc = "done" /\ op = "Conv1dSubsampling"

\* C15: for the default CNN configuration (kernels [3,5,5,5], strides
\* [2,4,4,5], paddings [1,2,2,2]) the hard-coded formula
\* ((((L+1)//2+3)//4+3)//4+4)//5 of Conv1dSubsampling.forward equals, for every
\* length L >= 1, the output length of the four stacked Conv1d layers,
\* floor((n + 2p - k)/s) + 1 layer by layer; for a series that fills the
\* signal tensor it is the length the layers gave the tensor.
C15_FormulaMatchesConvStack ==
    SubsamplingDone =>
        \A i \in 1..Len(args.x_lens) :
            /\ args.x_lens[i] >= 1
            /\ locals.conv_x_lens[i] = ConvStackOutLen(args.x_lens[i], 1)
            /\ args.x_lens[i] = args.frames => locals.conv_x_lens[i] = locals.conv_frames
            /\ ret.x_lens[i] = locals.conv_x_lens[i] \div 2

C15_Witness ==
    /\ SubsamplingDone
    /\ ts_cnn_kernel_sizes = <<3, 5, 5, 5>>
    /\ ts_cnn_strides = <<2, 4, 4, 5>>
    /\ ts_cnn_paddings = <<1, 2, 2, 2>>
    /\ Len(args.x_lens) = 2
    /\ args.x_lens[2] < args.frames
    /\ locals.conv_frames = 3
    /\ locals.conv_x_lens = <<3, 2>>

\* ------------------------------------------------ claims: pixel_shuffle
PixelShuffleDone == pc = "done" /\ op = "pixel_shuffle"

\* C9 as stated: pixel_shuffle on an input of shape (batch, width, height,
\* channels) returns a tensor of shape (batch, height * s, width * s,
\* channels / s^2) that holds every input element exactly once.
C9_AsStated ==
    (PixelShuffleDone /\ raised = "none") =>
        LET shape == args.vision_features.shape
            s == args.scale_factor
        IN  /\ ret.shape = <<shape[1], (shape[3] * s.num) \div s.den,
                             (shape[2] * s.num) \div s.den,
                             (shape[4] * s.den * s.den) \div (s.num * s.num)>>
            /\ Len(ret.data) = Len(args.vision_features.data)
            /\ \A e \in 1..Len(args.vision_features.data) :
                   Cardinality({p \in 1..Len(ret.data) : ret.data[p] = e}) = 1

\* height * s or width * s is not an integer.
UnevenDownsampling ==
    \/ (args.vision_features.shape[3] * args.scale_factor.num) % args.scale_factor.den # 0
    \/ (args.vision_features.shape[2] * args.scale_factor.num) % args.scale_factor.den # 0

\* C10 as stated: pixel_shuffle raises the ValueError "Height and width must
\* be divisible by scale_factor ..." whenever height * scale_factor or
\* width * scale_factor is not an integer (for 0.5: height or width is odd).
C10_AsStated ==
    (PixelShuffleDone /\ UnevenDownsampling) =>
        raised = "ValueError: Height and width must be divisible by scale_factor"

====
